---- MODULE Spec2Model ----
(***************************************************************************)
(* Model of the Swyftx exchange adapter                                    *)
(* (python/ccxt/async_support/swyftx.py): the bearer-token session, the    *)
(* request signer, the asset and market caches, the order translator and   *)
(* the error classifier.                                                   *)
(*                                                                         *)
(* Python coroutines run atomically between awaits on the transport, so    *)
(* one action is the code between two suspension points of one call.       *)
(* Strings that the code searches (error messages, table keys) are         *)
(* sequences of characters; URL paths are sequences of '/'-separated       *)
(* segments (a trailing '/' is an empty last segment).                     *)
(***************************************************************************)
EXTENDS Integers, Sequences, FiniteSets, TLC

VARIABLES
  access_token,   \* self.access_token: None or a token
  markets,        \* the market cache filled by load_markets: Nothing or Some(markets)
  options,        \* self.options: [assetsByCode, assetsById], each Nothing or Some(dict)
  calls,          \* the coroutines in flight: call id -> call record
  re_bound,       \* whether the global name `re` resolves when line 521 runs
  input,          \* input of the function under study (pure-function specifications)
  output          \* its result

vars == << access_token, markets, options, calls, re_bound, input, output >>

\* Python's None, for strings
None == "None"

\* None for a container or an optional number; Some(x) is a present value.
Nothing == << >>
Some(x) == << x >>

(***************************************************************************)
(* Error classifier                                                        *)
(***************************************************************************)

\* self.exceptions['exact'], in dict order: << message, error kind >>
exceptions_exact ==
  << << <<"I","n","v","a","l","i","d"," ","A","P","I"," ","K","e","y">>, "AuthenticationError" >>,
     << <<"I","n","v","a","l","i","d"," ","s","i","g","n","a","t","u","r","e">>, "AuthenticationError" >>,
     << <<"I","n","v","a","l","i","d"," ","n","o","n","c","e">>, "AuthenticationError" >>,
     << <<"I","n","v","a","l","i","d"," ","a","u","t","h","e","n","t","i","c","a","t","i","o","n"," ","c","r","e","d","e","n","t","i","a","l","s">>, "AuthenticationError" >>,
     << <<"I","n","s","u","f","f","i","c","i","e","n","t"," ","f","u","n","d","s">>, "InsufficientFunds" >>,
     << <<"I","n","s","u","f","f","i","c","i","e","n","t"," ","b","a","l","a","n","c","e">>, "InsufficientFunds" >>,
     << <<"I","n","v","a","l","i","d"," ","o","r","d","e","r">>, "InvalidOrder" >>,
     << <<"O","r","d","e","r"," ","n","o","t"," ","f","o","u","n","d">>, "OrderNotFound" >>,
     << <<"M","a","r","k","e","t"," ","n","o","t"," ","f","o","u","n","d">>, "BadRequest" >>,
     << <<"A","s","s","e","t"," ","n","o","t"," ","f","o","u","n","d">>, "BadRequest" >>,
     << <<"R","a","t","e"," ","l","i","m","i","t"," ","e","x","c","e","e","d","e","d">>, "RateLimitExceeded" >>,
     << <<"T","r","a","d","i","n","g"," ","i","s"," ","d","i","s","a","b","l","e","d">>, "NotSupported" >> >>

\* self.exceptions['broad'], in dict order: << substring, error kind >>
exceptions_broad ==
  << << <<"A","P","I"," ","k","e","y">>, "AuthenticationError" >>,
     << <<"s","i","g","n","a","t","u","r","e">>, "AuthenticationError" >>,
     << <<"a","u","t","h","e","n","t","i","c","a","t","i","o","n">>, "AuthenticationError" >>,
     << <<"U","n","a","u","t","h","o","r","i","z","e","d">>, "AuthenticationError" >>,
     << <<"f","u","n","d","s">>, "InsufficientFunds" >>,
     << <<"b","a","l","a","n","c","e">>, "InsufficientFunds" >>,
     << <<"I","n","v","a","l","i","d">>, "InvalidOrder" >>,
     << <<"N","o","t"," ","f","o","u","n","d">>, "OrderNotFound" >>,
     << <<"R","a","t","e"," ","l","i","m","i","t">>, "RateLimitExceeded" >>,
     << <<"d","i","s","a","b","l","e","d">>, "NotSupported" >> >>

\* string.find(key) >= 0
Contains(string, key) ==
  \E i \in 0..(Len(string) - Len(key)) :
    \A j \in 1..Len(key) : string[i + j] = key[j]

\* A field that is missing, null or empty: safe_string yields the default for it.
Absent == << >>

\* safe_string(dictionary, key, default): the field's string, or the default
safe_string(dictionary, key, default) ==
  IF dictionary[key] # Absent THEN dictionary[key] ELSE default

\* throw_exactly_matched_exception(exact, string, feedback): the kind raised, or None
throw_exactly_matched_exception(exact, string) ==
  IF string # Absent /\ \E i \in 1..Len(exact) : exact[i][1] = string
  THEN exact[CHOOSE i \in 1..Len(exact) : exact[i][1] = string][2]
  ELSE None

\* find_broadly_matched_key(broad, string): index of the first key found in string, or 0
find_broadly_matched_key(broad, string) ==
  IF string # Absent /\ \E i \in 1..Len(broad) : Contains(string, broad[i][1])
  THEN CHOOSE i \in 1..Len(broad) :
         /\ Contains(string, broad[i][1])
         /\ \A k \in 1..(i - 1) : ~Contains(string, broad[k][1])
  ELSE 0

\* throw_broadly_matched_exception(broad, string, feedback): the kind raised, or None
throw_broadly_matched_exception(broad, string) ==
  LET k == find_broadly_matched_key(broad, string)
  IN  IF k # 0 THEN broad[k][2] ELSE None

\* Mutant: the message tables are consulted before the status code.
handle_errors_message_first(status_code, response) ==
  IF response.empty THEN None
  ELSE
    LET error == safe_string(response, "error", Absent)
        message == safe_string(response, "message", error)
        error_code == safe_string(response, "code", Absent)
        byExact == throw_exactly_matched_exception(exceptions_exact, message)
        byBroad == throw_broadly_matched_exception(exceptions_broad, message)
    IN  IF error # Absent \/ message # Absent \/ error_code # Absent
        THEN IF byExact # None THEN byExact
             ELSE IF byBroad # None THEN byBroad
             ELSE IF status_code \in {401, 403} THEN "AuthenticationError"
             ELSE IF status_code = 429 THEN "RateLimitExceeded"
             ELSE IF status_code = 400 THEN "BadRequest"
             ELSE "ExchangeError"
        ELSE None

\* Mutant: no generic fallback after the tables.
handle_errors_no_fallback(status_code, response) ==
  IF response.empty THEN None
  ELSE
    LET error == safe_string(response, "error", Absent)
        message == safe_string(response, "message", error)
        error_code == safe_string(response, "code", Absent)
        byExact == throw_exactly_matched_exception(exceptions_exact, message)
        byBroad == throw_broadly_matched_exception(exceptions_broad, message)
    IN  IF error # Absent \/ message # Absent \/ error_code # Absent
        THEN IF status_code \in {401, 403} THEN "AuthenticationError"
             ELSE IF status_code = 429 THEN "RateLimitExceeded"
             ELSE IF status_code = 400 THEN "BadRequest"
             ELSE IF byExact # None THEN byExact
             ELSE byBroad
        ELSE None

\* handle_errors(status_code, ..., response, ...): the error kind raised, or
\* None when it returns without raising.  response is the parsed body: empty
\* (`not response`), or its error / message / code fields.
handle_errors(status_code, response) ==
  IF response.empty THEN None
  ELSE
    LET error == safe_string(response, "error", Absent)
        message == safe_string(response, "message", error)
        error_code == safe_string(response, "code", Absent)
        byExact == throw_exactly_matched_exception(exceptions_exact, message)
        byBroad == throw_broadly_matched_exception(exceptions_broad, message)
    IN  IF error # Absent \/ message # Absent \/ error_code # Absent
        THEN IF status_code \in {401, 403} THEN "AuthenticationError"
             ELSE IF status_code = 429 THEN "RateLimitExceeded"
             ELSE IF status_code = 400 THEN "BadRequest"
             ELSE IF byExact # None THEN byExact
             ELSE IF byBroad # None THEN byBroad
             ELSE "ExchangeError"
        ELSE None

\* Messages the classifier is exercised with.
\* "Invalid API Key"
MsgInvalidApiKey == <<"I","n","v","a","l","i","d"," ","A","P","I"," ","K","e","y">>

\* "Insufficient funds"
MsgInsufficientFunds == <<"I","n","s","u","f","f","i","c","i","e","n","t"," ","f","u","n","d","s">>

\* "Market not found"
MsgMarketNotFound == <<"M","a","r","k","e","t"," ","n","o","t"," ","f","o","u","n","d">>

\* "Invalid funds"
MsgInvalidFunds == <<"I","n","v","a","l","i","d"," ","f","u","n","d","s">>

\* "Unauthorized"
MsgUnauthorized == <<"U","n","a","u","t","h","o","r","i","z","e","d">>

\* "Order Not found"
MsgOrderNotFoundCaps == <<"O","r","d","e","r"," ","N","o","t"," ","f","o","u","n","d">>

\* "Something odd"
MsgSomethingOdd == <<"S","o","m","e","t","h","i","n","g"," ","o","d","d">>

\* "Rate limit exceeded"
MsgRateLimitExceeded == <<"R","a","t","e"," ","l","i","m","i","t"," ","e","x","c","e","e","d","e","d">>

Messages ==
  { MsgInvalidApiKey, MsgInsufficientFunds, MsgMarketNotFound, MsgInvalidFunds,
    MsgUnauthorized, MsgOrderNotFoundCaps, MsgSomethingOdd, MsgRateLimitExceeded }

Statuses == {200, 400, 401, 403, 429, 500}

\* "E42"
CodeE42 == <<"E","4","2">>

\* A body that is falsy in Python (no body, {} or ''): handle_errors returns at once.
EmptyBody == [empty |-> TRUE, error |-> Absent, message |-> Absent, code |-> Absent]

\* Parsed response bodies: empty, or the three fields the classifier reads.
Bodies ==
  {EmptyBody} \cup [ empty : {FALSE},
                     error : {Absent, MsgInsufficientFunds, MsgSomethingOdd},
                     message : {Absent} \cup Messages,
                     code : {Absent, CodeE42} ]

\* The part of the state the classifier specification does not use.
IdleAdapter ==
  /\ access_token = None
  /\ markets = Nothing
  /\ options = [assetsByCode |-> Nothing, assetsById |-> Nothing]
  /\ calls = << >>
  /\ re_bound = FALSE

AdapterUnchanged == UNCHANGED << access_token, markets, options, calls, re_bound >>

InitClassifier ==
  /\ IdleAdapter
  /\ input \in [status : Statuses, response : Bodies]
  /\ output = [applied |-> FALSE, raised |-> None]

\* The transport hands one response to handle_errors.
Classify ==
  /\ ~output.applied
  /\ output' = [applied |-> TRUE, raised |-> handle_errors(input.status, input.response)]
  /\ UNCHANGED input
  /\ AdapterUnchanged

NextClassifier == Classify

SpecClassifier == InitClassifier /\ [][NextClassifier]_vars

\* The body carries an error, message or code field.
CarriesErrorField(response) ==
  response.error # Absent \/ response.message # Absent \/ response.code # Absent

\* The message the tables are matched against: the message field, else the error field.
MessageOf(response) ==
  IF response.message # Absent THEN response.message ELSE response.error

InExact(m) == m # Absent /\ \E i \in 1..Len(exceptions_exact) : exceptions_exact[i][1] = m
InBroad(m) == m # Absent /\ \E i \in 1..Len(exceptions_broad) : Contains(m, exceptions_broad[i][1])

\* C2: a response that carries an error, message or code field is raised as
\* the first applicable kind: 401/403 -> AuthenticationError, 429 ->
\* RateLimitExceeded, 400 -> BadRequest, else the exact-table entry of the
\* message, else the first broad-table entry (in table order) whose key
\* occurs in the message, else ExchangeError.
C2_Priority ==
  (output.applied /\ CarriesErrorField(input.response)) =>
    LET s == input.status
        m == MessageOf(input.response)
    IN  /\ s \in {401, 403} => output.raised = "AuthenticationError"
        /\ s = 429 => output.raised = "RateLimitExceeded"
        /\ s = 400 => output.raised = "BadRequest"
        /\ (s \notin {400, 401, 403, 429} /\ InExact(m)) =>
             \E i \in 1..Len(exceptions_exact) :
               exceptions_exact[i][1] = m /\ output.raised = exceptions_exact[i][2]
        /\ (s \notin {400, 401, 403, 429} /\ ~InExact(m) /\ InBroad(m)) =>
             \E i \in 1..Len(exceptions_broad) :
               /\ Contains(m, exceptions_broad[i][1])
               /\ \A k \in 1..(i - 1) : ~Contains(m, exceptions_broad[k][1])
               /\ output.raised = exceptions_broad[i][2]
        /\ (s \notin {400, 401, 403, 429} /\ ~InExact(m) /\ ~InBroad(m)) =>
             output.raised = "ExchangeError"

\* HTTP 401 with message "Insufficient funds" was classified AuthenticationError.
C2_Witness ==
  /\ output.applied
  /\ input.status = 401
  /\ input.response.message = MsgInsufficientFunds
  /\ output.raised = "AuthenticationError"

\* C3: handle_errors raises iff the body carries an error, message or code
\* field, for every status; and a carried field that no status rule and no
\* table entry matches raises ExchangeError.
C3_Totality ==
  output.applied =>
    /\ (output.raised # None) <=> CarriesErrorField(input.response)
    /\ ( /\ CarriesErrorField(input.response)
         /\ input.status \notin {400, 401, 403, 429}
         /\ ~InExact(MessageOf(input.response))
         /\ ~InBroad(MessageOf(input.response)) ) => output.raised = "ExchangeError"

\* An unrecognized message under HTTP 200 was raised as ExchangeError.
C3_Witness ==
  /\ output.applied
  /\ input.status = 200
  /\ input.response.message = MsgSomethingOdd
  /\ output.raised = "ExchangeError"

(***************************************************************************)
(* Asset catalog and market synthesis                                      *)
(***************************************************************************)

\* Longest asset list the catalog endpoint returns in the model.
MaxAssets == 2

\* Quantities are fixed-point: the integer n stands for n / Unit.
Unit == 10

Ids == {"1", "2", "3"}
Codes == {"AUD", "BTC"}

\* The fields of an asset the adapter reads (minimum_order_increment 0: missing).
Assets == [id : Ids, code : Codes, minimum_order_increment : {0, 5}, price_scale : {0}]

AssetLists == UNION { [1..n -> Assets] : n \in 0..MaxAssets }

\* rate_info of a live-rate entry
RateInfos == [buyLiquidityFlag : BOOLEAN, sellLiquidityFlag : {FALSE}]

\* A live-rate snapshot: its entries in key order, keys distinct.
Snapshots ==
  { r \in UNION { [1..n -> [id : Ids, rate : RateInfos]] : n \in 0..Cardinality(Ids) } :
      \A i, j \in 1..Len(r) : r[i].id = r[j].id => i = j }

\* The dict built by assigning d[entry[key]] = entry for each entry in order.
index_by(list, key) ==
  [ v \in { list[i][key] : i \in 1..Len(list) } |->
      list[CHOOSE i \in 1..Len(list) :
             /\ list[i][key] = v
             /\ \A j \in (i + 1)..Len(list) : list[j][key] # v] ]

\* Mutant: an entry already present for a code is kept (first one wins).
load_asset_mapping_store_first_code(assets) ==
  [ assetsByCode |->
      Some([ v \in { assets[i].code : i \in 1..Len(assets) } |->
               assets[CHOOSE i \in 1..Len(assets) :
                        /\ assets[i].code = v
                        /\ \A j \in 1..(i - 1) : assets[j].code # v] ]),
    assetsById |-> Some(index_by(assets, "id")) ]

\* Mutant: only the by-code index is stored.
load_asset_mapping_store_code_only(assets) ==
  [ assetsByCode |-> Some(index_by(assets, "code")), assetsById |-> Nothing ]

\* load_asset_mapping, after the fetch: the two indexes stored in self.options
load_asset_mapping_store(assets) ==
  [ assetsByCode |-> Some(index_by(assets, "code")),
    assetsById |-> Some(index_by(assets, "id")) ]

aud_id == "1"

Pow10(n) == IF n = 0 THEN 1 ELSE IF n = 1 THEN 10 ELSE 100

\* 10 ** (-price_scale), in fixed-point units (at least one unit)
precision_of_scale(price_scale) ==
  IF Unit \div Pow10(price_scale) > 0 THEN Unit \div Pow10(price_scale) ELSE 1

\* One entry of fetch_markets' result.
market_of(base_id, base_asset, aud_asset, rate_info) ==
  [ id |-> << base_id, aud_id >>,
    symbol |-> << base_asset.code, aud_asset.code >>,
    base |-> base_asset.code,
    quote |-> aud_asset.code,
    baseId |-> base_id,
    quoteId |-> aud_id,
    active |-> ~rate_info.buyLiquidityFlag /\ ~rate_info.sellLiquidityFlag,
    precision |->
      [ amount |-> IF base_asset.minimum_order_increment # 0
                   THEN base_asset.minimum_order_increment
                   ELSE precision_of_scale(base_asset.price_scale),
        price |-> precision_of_scale(aud_asset.price_scale) ] ]

\* fetch_markets, first part: whether the asset list has the AUD asset
fetch_markets_has_aud(assets_response) ==
  aud_id \in DOMAIN index_by(assets_response, "id")

\* Mutant: the quote asset itself is not skipped.
fetch_markets_result_keep_quote(assets_response, live_rates_response) ==
  LET assets_by_id == index_by(assets_response, "id")
      kept == SelectSeq(live_rates_response, LAMBDA e : e.id \in DOMAIN assets_by_id)
  IN  [ i \in 1..Len(kept) |->
          market_of(kept[i].id, assets_by_id[kept[i].id], assets_by_id[aud_id], kept[i].rate) ]

\* fetch_markets, second part: the markets, in the snapshot's key order
fetch_markets_result(assets_response, live_rates_response) ==
  LET assets_by_id == index_by(assets_response, "id")
      kept == SelectSeq(live_rates_response,
                        LAMBDA e : e.id # aud_id /\ e.id \in DOMAIN assets_by_id)
  IN  [ i \in 1..Len(kept) |->
          market_of(kept[i].id, assets_by_id[kept[i].id], assets_by_id[aud_id], kept[i].rate) ]

----

InitAssets ==
  /\ IdleAdapter
  /\ input \in AssetLists
  /\ output = Nothing

\* The catalog fetch of load_asset_mapping returns the asset list.
LoadAssets ==
  /\ options.assetsByCode = Nothing
  /\ options' = load_asset_mapping_store(input)
  /\ UNCHANGED << access_token, markets, calls, re_bound, input, output >>

NextAssets == LoadAssets

SpecAssets == InitAssets /\ [][NextAssets]_vars

Loaded == options.assetsByCode # Nothing /\ options.assetsById # Nothing
byCode == options.assetsByCode[1]
byId == options.assetsById[1]

\* The two indexes have the same size and every asset of the list round-trips.
IndexesAgree(assets) ==
  /\ Cardinality(DOMAIN byCode) = Cardinality(DOMAIN byId)
  /\ \A i \in 1..Len(assets) :
       LET a == assets[i]
       IN  /\ byCode[byId[a.id].code] = byId[a.id]
           /\ byId[byCode[a.code].id] = byCode[a.code]

\* C8 as stated: for every asset list the catalog fetch returns, after
\* load_asset_mapping byCode and byId have the same number of entries and
\* agree on every asset (id -> code -> same asset, code -> id -> same asset).
C8_Original == Loaded => IndexesAgree(input)

\* Two assets of the list share an id exactly when they share a code.
OneToOne(assets) ==
  \A i, j \in 1..Len(assets) : (assets[i].id = assets[j].id) <=> (assets[i].code = assets[j].code)

\* C8, amended: for every asset list in which ids and codes correspond one to
\* one, after load_asset_mapping byCode and byId have the same number of
\* entries and agree on every asset.
C8_IndexAgreement == (Loaded /\ OneToOne(input)) => IndexesAgree(input)

\* A list of two assets with distinct ids and codes has been indexed.
C8_Witness ==
  /\ Loaded
  /\ Len(input) = 2
  /\ OneToOne(input)
  /\ input[1].id # input[2].id

----

InitMarkets ==
  /\ IdleAdapter
  /\ input \in [assets : AssetLists, rates : Snapshots]
  /\ output = [applied |-> FALSE, raised |-> None, result |-> << >>]

\* fetch_markets runs on the two responses.
SynthesizeMarkets ==
  /\ ~output.applied
  /\ output' = IF fetch_markets_has_aud(input.assets)
               THEN [applied |-> TRUE, raised |-> None,
                     result |-> fetch_markets_result(input.assets, input.rates)]
               ELSE [applied |-> TRUE, raised |-> "ExchangeError", result |-> << >>]
  /\ UNCHANGED input
  /\ AdapterUnchanged

NextMarkets == SynthesizeMarkets

SpecMarkets == InitMarkets /\ [][NextMarkets]_vars

Returned == output.applied /\ output.raised = None
InSnapshot(x) == \E i \in 1..Len(input.rates) : input.rates[i].id = x
HasAsset(x) == \E i \in 1..Len(input.assets) : input.assets[i].id = x
HasMarket(x) == \E i \in 1..Len(output.result) : output.result[i].baseId = x
QuoteIsAud == \A i \in 1..Len(output.result) : output.result[i].quoteId = aud_id

\* C9 as stated: the result has a market with base id X iff X is in the
\* live-rate snapshot and has an asset entry; every market's quote is AUD.
C9_Original ==
  Returned => /\ \A x \in Ids : HasMarket(x) <=> (InSnapshot(x) /\ HasAsset(x))
              /\ QuoteIsAud

\* C9, amended: the result has a market with base id X iff X is not the quote
\* id itself, X is in the live-rate snapshot and X has an asset entry; every
\* market's quote is the AUD asset (id '1').
C9_MarketSynthesis ==
  Returned => /\ \A x \in Ids : HasMarket(x) <=> (x # aud_id /\ InSnapshot(x) /\ HasAsset(x))
              /\ QuoteIsAud

\* A market was synthesized from a snapshot that also lists the quote id.
C9_Witness ==
  /\ Returned
  /\ InSnapshot(aud_id)
  /\ Len(output.result) > 0

(***************************************************************************)
(* Session, request signer and fetch                                       *)
(***************************************************************************)

\* Tokens the refresh endpoint hands out.
Tokens == {"t1", "t2"}

\* self.urls['api']
urls_api == [public |-> "https://api.swyftx.com.au", private |-> "https://api.swyftx.com.au"]

\* self.api['private']: lower-case method -> endpoint templates
api_private ==
  [ get |-> << <<"user", "balance">>, <<"user", "statistics", "accountValue">>,
               <<"orders">>, <<"orders", "byId", "{orderUuid}">>,
               <<"orders", "detail", "{orderId}">>, <<"limits", "withdrawal">>,
               <<"trade", "details", "{tradeUuid}">>, <<"history">> >>,
    post |-> << <<"orders">>, <<"orders", "market">>, <<"withdraw">>, <<"transfer">> >>,
    delete |-> << <<"orders", "{orderId}">> >>,
    put |-> << <<"orders", "{orderUuid}">> >> ]

\* method.lower()
lower == [GET |-> "get", POST |-> "post", DELETE |-> "delete", PUT |-> "put"]

\* A header that is not sent.
NoHeader == "absent"

NoUrl == [base |-> None, path |-> << >>, query |-> << >>]
NoRequest == [url |-> NoUrl, method |-> None, headers |-> [Authorization |-> NoHeader], body |-> << >>]

\* fetch(url) with the default method, headers and body
public_get(path) ==
  [ url |-> [base |-> urls_api.public, path |-> path, query |-> << >>],
    method |-> "GET", headers |-> [Authorization |-> NoHeader], body |-> << >> ]

assets_request == public_get(<<"markets", "assets", "">>)
live_rates_request == public_get(<<"live-rates", aud_id, "">>)

\* 'auth/refresh/' in url
is_refresh_url(url) ==
  \E i \in 1..(Len(url.path) - 2) : url.path[i] = "auth" /\ url.path[i + 1] = "refresh"

\* re.match('^' + endpoint.replace('{[^}]+}', '[^/]+') + '$', path): str.replace
\* looks for the literal text '{[^}]+}', which no endpoint contains, so the
\* pattern is the endpoint itself and its braces match themselves.
re_match(endpoint, path) == path = endpoint

\* needs_authentication(url, method): the exception it raises (or None) and
\* its value.  The module's imports (lines 1-7) do not bind `re`: the first
\* evaluation of re.match raises NameError unless the embedding program has
\* bound the name in the module's namespace (re_bound).
needs_authentication(url, method) ==
  IF is_refresh_url(url) THEN [raised |-> None, value |-> FALSE]
  ELSE IF url.base # urls_api.private THEN [raised |-> None, value |-> FALSE]
  ELSE LET method_endpoints == api_private[lower[method]]
       IN  IF Len(method_endpoints) = 0 THEN [raised |-> None, value |-> FALSE]
           ELSE IF ~re_bound THEN [raised |-> "NameError", value |-> FALSE]
           ELSE [ raised |-> None,
                  value |-> \E i \in 1..Len(method_endpoints) :
                              re_match(method_endpoints[i], url.path) ]

\* The parameter named by a placeholder segment.
placeholder_key ==
  [ s \in {"{orderUuid}", "{orderId}", "{tradeUuid}"} |->
      IF s = "{orderUuid}" THEN "orderUuid" ELSE IF s = "{orderId}" THEN "orderId" ELSE "tradeUuid" ]

\* implode_params(path, params)
implode_params(path, params) ==
  [ i \in 1..Len(path) |->
      IF path[i] \in DOMAIN placeholder_key /\ placeholder_key[path[i]] \in DOMAIN params
      THEN params[placeholder_key[path[i]]]
      ELSE path[i] ]

\* extract_params(path)
extract_params(path) ==
  { placeholder_key[path[i]] : i \in { j \in 1..Len(path) : path[j] \in DOMAIN placeholder_key } }

\* omit(params, keys)
omit(params, keys) == [ k \in (DOMAIN params) \ keys |-> params[k] ]

\* {**a, **b}: b wins on a key collision
merge(a, b) == [ k \in (DOMAIN a) \cup (DOMAIN b) |-> IF k \in DOMAIN b THEN b[k] ELSE a[k] ]

\* sign(path, api, method, params) with the slot holding token.  In the
\* private branch `self.authenticate()` only creates a coroutine object: it is
\* never awaited, so no refresh exchange runs and the slot is not changed.
\* Authorization None stands for the header text 'Bearer None'.
sign(token, path, api, method, params) ==
  LET query == omit(params, extract_params(path))
      inUrl == IF api = "private" THEN method \in {"GET", "DELETE"} ELSE TRUE
      inBody == api = "private" /\ method \in {"POST", "PUT"}
  IN  [ url |-> [ base |-> urls_api[api],
                  path |-> implode_params(path, params),
                  query |-> IF inUrl THEN query ELSE << >> ],
        method |-> method,
        headers |-> [Authorization |-> IF api = "private" THEN token ELSE NoHeader],
        body |-> IF inBody THEN query ELSE << >> ]

(***************************************************************************)
(* Order translator                                                        *)
(***************************************************************************)

\* amount_to_precision: truncated to the market's amount precision
amount_to_precision(market, amount) ==
  amount - (amount % market.precision.amount)

\* price_to_precision: rounded to the market's price precision
price_to_precision(market, price) ==
  ((2 * price + market.precision.price) \div (2 * market.precision.price)) * market.precision.price

\* cost_to_precision: truncated to the market's price precision
cost_to_precision(market, cost) ==
  cost - (cost % market.precision.price)

\* amount * price, in fixed-point units
times(amount, price) == (amount * price) \div Unit

\* number_to_string(1 / price): the rational 1/price as << numerator, denominator >>
inverse(price) == << Unit, price >>

\* Mutant: the sell codes are given to buys and the buy codes to sells.
create_order_type_swapped(type, side) ==
  IF type = "market" THEN [raised |-> None, order_type |-> IF side = "buy" THEN "4" ELSE "3"]
  ELSE IF type = "limit" THEN [raised |-> None, order_type |-> IF side = "buy" THEN "2" ELSE "1"]
  ELSE [raised |-> "InvalidOrder", order_type |-> None]

\* create_order, order-type selection (lines 259-265)
create_order_type(type, side) ==
  IF type = "market" THEN [raised |-> None, order_type |-> IF side = "buy" THEN "3" ELSE "4"]
  ELSE IF type = "limit" THEN [raised |-> None, order_type |-> IF side = "buy" THEN "1" ELSE "2"]
  ELSE [raised |-> "InvalidOrder", order_type |-> None]

\* Mutant: every priced limit order is flipped to quote terms, sells included.
create_order_request_flip_sell(market, type, side, amount, price, order_type) ==
  LET override == type = "limit" /\ price # Nothing
      fields == [ primary |-> IF override THEN market.quote ELSE market.base,
                  secondary |-> IF override THEN market.base ELSE market.quote,
                  quantity |-> IF override
                               THEN cost_to_precision(market, times(amount, price[1]))
                               ELSE amount_to_precision(market, amount),
                  assetQuantity |-> IF override THEN market.quote ELSE market.base,
                  orderType |-> order_type ]
  IN  IF override
      THEN merge(fields, [trigger |-> Some(price_to_precision(market, price[1]))])
      ELSE fields

\* create_order, the request dict (lines 266-290).  trigger is a non-empty
\* string whenever it is set, so `if trigger:` is `trigger is not None`.
create_order_request(market, type, side, amount, price, order_type) ==
  LET flip == type = "limit" /\ price # Nothing /\ side = "buy"
      trigger == IF type = "limit" /\ price # Nothing
                 THEN IF side = "buy"
                      THEN Some(price_to_precision(market, price[1]))
                      ELSE inverse(price[1])
                 ELSE Nothing
      fields == [ primary |-> IF flip THEN market.quote ELSE market.base,
                  secondary |-> IF flip THEN market.base ELSE market.quote,
                  quantity |-> IF flip
                               THEN cost_to_precision(market, times(amount, price[1]))
                               ELSE amount_to_precision(market, amount),
                  assetQuantity |-> IF flip THEN market.quote ELSE market.base,
                  orderType |-> order_type ]
  IN  IF trigger # Nothing THEN merge(fields, [trigger |-> trigger]) ELSE fields

\* edit_order, the request params (lines 359-364)
edit_order_request(market, id, amount, price) ==
  LET withId == [orderUuid |-> id]
      withPrice == IF price # Nothing
                   THEN merge(withId, [trigger |-> Some(price_to_precision(market, price[1]))])
                   ELSE withId
  IN  IF amount # Nothing
      THEN merge(withPrice, [ quantity |-> amount_to_precision(market, amount[1]),
                              assetQuantity |-> market.base ])
      ELSE withPrice

(***************************************************************************)
(* Calls in flight                                                         *)
(***************************************************************************)

NoArgs ==
  [ symbol |-> Nothing, type |-> None, side |-> None, amount |-> Nothing,
    price |-> Nothing, params |-> << >>, id |-> None ]

\* A call: the method entered (op), the method whose body is running (frame),
\* where it is suspended (at) on which request (req), the request held back
\* while fetch() refreshes the token (pending), fetch_markets' asset list
\* (assets_response), and what create_order selected and built.  The rest
\* records what the call has done: signed a private request, found the slot
\* empty when signing, refresh exchanges started since signing, requests
\* handed to the transport, and how it ended; whether another call was in
\* flight when this one was entered (peer), the token its refresh exchange
\* returned (got_token), and for load_asset_mapping whether it ran, whether it
\* found the by-code index unset, and how often it called fetch() (lam_*).
IdleCall ==
  [ op |-> None, frame |-> None, args |-> NoArgs, pc |-> "idle", at |-> None,
    req |-> NoRequest, pending |-> [req |-> NoRequest, at |-> None],
    assets_response |-> << >>, selected |-> FALSE, order_type |-> None, request |-> << >>,
    signed |-> FALSE, signed_empty |-> FALSE, auths |-> 0, sent |-> 0, result |-> None,
    peer |-> FALSE, got_token |-> None,
    lam_called |-> FALSE, lam_empty |-> FALSE, lam_fetches |-> 0 ]

\* The adapter as one call sees it.
World(c) ==
  [ access_token |-> access_token, markets |-> markets, options |-> options, call |-> calls[c] ]

\* The exception leaves the coroutine: nothing in the adapter catches it.
Raise(w, kind) ==
  [w EXCEPT !.call.pc = "done", !.call.at = None, !.call.req = NoRequest, !.call.result = kind]

Return(w) ==
  [w EXCEPT !.call.pc = "done", !.call.at = None, !.call.req = NoRequest, !.call.result = "ok"]

\* await super().fetch(...): the request is handed to the transport.
super_fetch(w, req, at) ==
  [w EXCEPT !.call.pc = "await", !.call.at = at, !.call.req = req, !.call.sent = @ + 1]

refresh_request ==
  [ url |-> [base |-> urls_api.public, path |-> <<"auth", "refresh", "">>, query |-> << >>],
    method |-> "POST", headers |-> [Authorization |-> NoHeader], body |-> [apiKey |-> "key"] ]

\* Mutant: the slot is cleared before the refresh exchange.
authenticate_clear_first(w, at) ==
  LET na == needs_authentication(refresh_request.url, refresh_request.method)
  IN  IF na.raised # None THEN Raise(w, na.raised)
      ELSE super_fetch([w EXCEPT !.access_token = None, !.call.auths = @ + 1], refresh_request, at)

\* authenticate(), up to its await: the refresh request goes through fetch(),
\* which never asks needs_authentication's question twice for the refresh URL.
authenticate(w, at) ==
  LET na == needs_authentication(refresh_request.url, refresh_request.method)
  IN  IF na.raised # None THEN Raise(w, na.raised)
      ELSE super_fetch([w EXCEPT !.call.auths = @ + 1], refresh_request, at)

\* authenticate(), after its await: the slot takes the response's accessToken.
authenticate_store(w, response) ==
  [w EXCEPT !.access_token = response.accessToken]

\* fetch(url, method, headers, body), up to its first await
fetch(w, req, at) ==
  LET na == needs_authentication(req.url, req.method)
  IN  IF na.raised # None THEN Raise(w, na.raised)
      ELSE IF na.value /\ w.access_token = None
           THEN authenticate([w EXCEPT !.call.pending = [req |-> req, at |-> at]],
                             "fetch:authenticate")
           ELSE super_fetch(w, req, at)

\* signed = self.sign(...); await self.fetch(signed...)
sign_and_fetch(w, path, method, params) ==
  fetch([w EXCEPT !.call.signed = TRUE,
                  !.call.signed_empty = (w.access_token = None),
                  !.call.auths = 0],
        sign(w.access_token, path, "private", method, params), "private")

\* self.market(symbol): the market, or Nothing (BadSymbol)
market(w, symbol) ==
  LET ms == w.markets[1]
  IN  IF \E i \in 1..Len(ms) : ms[i].symbol = symbol
      THEN Some(ms[CHOOSE i \in 1..Len(ms) : ms[i].symbol = symbol])
      ELSE Nothing

\* create_order after load_markets (lines 258-293)
create_order(w) ==
  LET a == w.call.args
      m == market(w, a.symbol)
      sel == create_order_type(a.type, a.side)
      request == create_order_request(m[1], a.type, a.side, a.amount[1], a.price, sel.order_type)
  IN  IF m = Nothing THEN Raise(w, "BadSymbol")
      ELSE IF sel.raised # None THEN Raise([w EXCEPT !.call.selected = TRUE], sel.raised)
      ELSE sign_and_fetch([w EXCEPT !.call.selected = TRUE,
                                    !.call.order_type = sel.order_type,
                                    !.call.request = request],
                          <<"orders">>, "POST", merge(request, a.params))

\* Mutant: the local checks are skipped.
edit_order_unchecked(w) ==
  LET a == w.call.args
      m == market(w, a.symbol)
  IN  IF m = Nothing THEN Raise(w, "BadSymbol")
      ELSE sign_and_fetch(w, <<"orders", "{orderUuid}">>, "PUT",
                          merge(edit_order_request(m[1], a.id, a.amount, a.price), a.params))

\* edit_order after load_markets (lines 354-367)
edit_order(w) ==
  LET a == w.call.args
      m == market(w, a.symbol)
  IN  IF m = Nothing THEN Raise(w, "BadSymbol")
      ELSE IF a.type # "limit" THEN Raise(w, "NotSupported")
      ELSE IF a.price = Nothing /\ a.amount = Nothing THEN Raise(w, "InvalidOrder")
      ELSE sign_and_fetch(w, <<"orders", "{orderUuid}">>, "PUT",
                          merge(edit_order_request(m[1], a.id, a.amount, a.price), a.params))

\* cancel_order after load_markets (lines 299-301)
cancel_order(w) ==
  sign_and_fetch(w, <<"orders", w.call.args.id, "">>, "DELETE", [orderUuid |-> w.call.args.id])

\* fetch_orders after load_markets (lines 330-341)
fetch_orders(w) ==
  LET a == w.call.args
      m == market(w, a.symbol)
  IN  IF a.symbol = Nothing THEN sign_and_fetch(w, <<"orders", "">>, "GET", a.params)
      ELSE IF m = Nothing THEN Raise(w, "BadSymbol")
      ELSE sign_and_fetch(w, <<"orders", m[1].base, "">>, "GET", a.params)

\* What follows `await self.load_asset_mapping()` in the running method.
after_load_asset_mapping(w) ==
  CASE w.call.frame = "load_asset_mapping" -> Return(w)
    [] w.call.frame = "fetch_balance" ->
         sign_and_fetch(w, <<"user", "balance", "">>, "GET", w.call.args.params)
    [] w.call.frame = "fetch_order" ->
         sign_and_fetch(w, <<"orders", "byId", w.call.args.id>>, "GET", << >>)

\* Mutant: the early return of line 206 is missing.
load_asset_mapping_always_fetch(w) ==
  fetch([w EXCEPT !.call.lam_called = TRUE,
                  !.call.lam_empty = (w.options.assetsByCode = Nothing),
                  !.call.lam_fetches = @ + 1],
        assets_request, "load_asset_mapping")

\* load_asset_mapping(), up to its await
load_asset_mapping(w) ==
  IF w.options.assetsByCode # Nothing
  THEN after_load_asset_mapping([w EXCEPT !.call.lam_called = TRUE, !.call.lam_empty = FALSE])
  ELSE fetch([w EXCEPT !.call.lam_called = TRUE, !.call.lam_empty = TRUE,
                       !.call.lam_fetches = @ + 1],
             assets_request, "load_asset_mapping")

\* What follows `await self.load_markets()` in the running method.
after_load_markets(w) ==
  CASE w.call.frame = "load_markets" -> Return(w)
    [] w.call.frame \in {"fetch_balance", "fetch_order"} -> load_asset_mapping(w)
    [] w.call.frame = "create_order" -> create_order(w)
    [] w.call.frame = "cancel_order" -> cancel_order(w)
    [] w.call.frame = "fetch_orders" -> fetch_orders(w)
    [] w.call.frame = "edit_order" -> edit_order(w)
    [] w.call.frame = "fetch_tickers" -> fetch(w, live_rates_request, "fetch_tickers")

\* load_markets(): cached markets are returned, else fetch_markets() runs
\* up to its first await.
load_markets(w) ==
  IF w.markets # Nothing THEN after_load_markets(w)
  ELSE fetch(w, assets_request, "fetch_markets:assets")

(***************************************************************************)
(* The adapter: calls and transport responses                              *)
(***************************************************************************)

\* Callers of the adapter; each runs one call at a time.
Callers == {"caller"}

Symbols == { <<"BTC", "AUD">> }
OrderIds == {"o1"}
Types == {"market", "limit", "stop"}
Sides == {"buy", "sell"}
Amounts == {7, 12}
Prices == {Nothing, Some(25), Some(32)}
\* Caller-supplied extra params: none, or two keys the request dict also uses.
ExtraParams == { << >>, [orderType |-> "9", trigger |-> Some(99)] }

\* Asset lists the catalog endpoint answers with: with and without the AUD asset.
CatalogAud ==
  << [id |-> "1", code |-> "AUD", minimum_order_increment |-> 0, price_scale |-> 0],
     [id |-> "2", code |-> "BTC", minimum_order_increment |-> 5, price_scale |-> 0] >>
CatalogNoAud ==
  << [id |-> "2", code |-> "BTC", minimum_order_increment |-> 5, price_scale |-> 0] >>
Catalogs == {CatalogAud, CatalogNoAud}

\* Live-rate snapshots the rates endpoint answers with.
SnapshotBtc ==
  << [id |-> "1", rate |-> [buyLiquidityFlag |-> FALSE, sellLiquidityFlag |-> FALSE]],
     [id |-> "2", rate |-> [buyLiquidityFlag |-> FALSE, sellLiquidityFlag |-> FALSE]] >>
LiveRates == {SnapshotBtc, << >>}

\* A body without error, message or code.
OkBody == [empty |-> FALSE, error |-> Absent, message |-> Absent, code |-> Absent]

\* Error responses of the exchange.
ErrorResponses ==
  { [status |-> 401, body |-> [OkBody EXCEPT !.message = MsgInsufficientFunds]],
    [status |-> 200, body |-> [OkBody EXCEPT !.message = MsgSomethingOdd]] }

Init ==
  /\ access_token = None
  /\ markets = Nothing
  /\ options = [assetsByCode |-> Nothing, assetsById |-> Nothing]
  /\ calls = [c \in Callers |-> IdleCall]
  /\ re_bound \in BOOLEAN
  /\ input = Nothing
  /\ output = Nothing

Commit(c, w) ==
  /\ access_token' = w.access_token
  /\ markets' = w.markets
  /\ options' = w.options
  /\ calls' = [calls EXCEPT ![c] = w.call]
  /\ UNCHANGED << re_bound, input, output >>

CanCall(c) == calls[c].pc \in {"idle", "done"}

Entered(c, op, args) ==
  [World(c) EXCEPT !.call =
     [IdleCall EXCEPT !.op = op, !.frame = op, !.args = args,
                      !.peer = \E d \in DOMAIN calls \ {c} : calls[d].pc = "await"]]

call_authenticate(c) ==
  /\ CanCall(c)
  /\ Commit(c, authenticate(Entered(c, "authenticate", NoArgs), "authenticate"))

call_load_markets(c) ==
  /\ CanCall(c)
  /\ Commit(c, load_markets(Entered(c, "load_markets", NoArgs)))

call_load_asset_mapping(c) ==
  /\ CanCall(c)
  /\ Commit(c, load_asset_mapping(Entered(c, "load_asset_mapping", NoArgs)))

call_fetch_balance(c) ==
  /\ CanCall(c)
  /\ Commit(c, load_markets(Entered(c, "fetch_balance", NoArgs)))

call_fetch_tickers(c) ==
  /\ CanCall(c)
  /\ Commit(c, load_markets(Entered(c, "fetch_tickers", NoArgs)))

\* create_order(symbol, type, side, amount, price, params) with arguments
\* drawn from the given sets.
call_create_order_from(c, types, sides, amounts, prices, extras) ==
  /\ CanCall(c)
  /\ \E symbol \in Symbols, type \in types, side \in sides, amount \in amounts,
        price \in prices, params \in extras :
       Commit(c, load_markets(Entered(c, "create_order",
         [NoArgs EXCEPT !.symbol = symbol, !.type = type, !.side = side,
                        !.amount = Some(amount), !.price = price, !.params = params])))

call_create_order(c) ==
  call_create_order_from(c, Types, Sides, Amounts, Prices, ExtraParams)

call_cancel_order(c) ==
  /\ CanCall(c)
  /\ \E id \in OrderIds :
       Commit(c, load_markets(Entered(c, "cancel_order", [NoArgs EXCEPT !.id = id])))

call_fetch_order(c) ==
  /\ CanCall(c)
  /\ \E id \in OrderIds :
       Commit(c, load_markets(Entered(c, "fetch_order", [NoArgs EXCEPT !.id = id])))

call_fetch_orders(c) ==
  /\ CanCall(c)
  /\ \E symbol \in Symbols \cup {Nothing} :
       Commit(c, load_markets(Entered(c, "fetch_orders", [NoArgs EXCEPT !.symbol = symbol])))

call_edit_order(c) ==
  /\ CanCall(c)
  /\ \E id \in OrderIds, symbol \in Symbols, type \in {"limit", "market"}, side \in {"buy"},
        amount \in {Nothing, Some(7)}, price \in {Nothing, Some(25)} :
       Commit(c, load_markets(Entered(c, "edit_order",
         [NoArgs EXCEPT !.id = id, !.symbol = symbol, !.type = type, !.side = side,
                        !.amount = amount, !.price = price])))

Awaits(c, at) == calls[c].pc = "await" /\ calls[c].at = at

\* The exchange answers with an error body: handle_errors raises in the transport.
respond_error(c) ==
  /\ calls[c].pc = "await"
  /\ \E r \in ErrorResponses :
       /\ handle_errors(r.status, r.body) # None
       /\ Commit(c, Raise(World(c), handle_errors(r.status, r.body)))

\* fetch_markets resumes with the asset list (lines 106-113).
respond_fetch_markets_assets(c) ==
  /\ Awaits(c, "fetch_markets:assets")
  /\ handle_errors(200, OkBody) = None
  /\ \E assets_response \in Catalogs :
       Commit(c, IF fetch_markets_has_aud(assets_response)
                 THEN fetch([World(c) EXCEPT !.call.assets_response = assets_response],
                            live_rates_request, "fetch_markets:rates")
                 ELSE Raise(World(c), "ExchangeError"))

\* fetch_markets resumes with the live rates; load_markets caches the result.
respond_fetch_markets_rates(c) ==
  /\ Awaits(c, "fetch_markets:rates")
  /\ handle_errors(200, OkBody) = None
  /\ \E live_rates_response \in LiveRates :
       Commit(c, after_load_markets(
         [World(c) EXCEPT
            !.markets = Some(fetch_markets_result(calls[c].assets_response, live_rates_response)),
            !.call.assets_response = << >>]))

\* load_asset_mapping resumes with the asset list (lines 210-218).
respond_load_asset_mapping(c) ==
  /\ Awaits(c, "load_asset_mapping")
  /\ handle_errors(200, OkBody) = None
  /\ \E assets \in Catalogs :
       Commit(c, after_load_asset_mapping(
         [World(c) EXCEPT !.options = load_asset_mapping_store(assets)]))

\* authenticate() resumes with the refresh response (lines 224-225); inside
\* fetch() the held-back request then goes to the transport as it was built.
respond_refresh(c) ==
  /\ calls[c].pc = "await"
  /\ calls[c].at \in {"authenticate", "fetch:authenticate"}
  /\ handle_errors(200, OkBody) = None
  /\ \E token \in Tokens :
       LET w == authenticate_store([World(c) EXCEPT !.call.got_token = token],
                                   [accessToken |-> token])
       IN  Commit(c, IF calls[c].at = "authenticate"
                     THEN Return(w)
                     ELSE super_fetch([w EXCEPT !.call.pending = IdleCall.pending],
                                      calls[c].pending.req, calls[c].pending.at))

\* A private request is answered.  edit_order reads orderUuid and re-fetches
\* the order (lines 368-371); the other methods parse and return.
respond_private(c) ==
  /\ Awaits(c, "private")
  /\ handle_errors(200, OkBody) = None
  /\ \E orderUuid \in {None, "o2"} :
       Commit(c, IF calls[c].frame = "edit_order"
                 THEN IF orderUuid = None
                      THEN Raise(World(c), "ExchangeError")
                      ELSE load_markets([World(c) EXCEPT !.call.frame = "fetch_order",
                                                         !.call.args.id = orderUuid])
                 ELSE Return(World(c)))

\* fetch_tickers resumes with the live rates.
respond_fetch_tickers(c) ==
  /\ Awaits(c, "fetch_tickers")
  /\ handle_errors(200, OkBody) = None
  /\ Commit(c, Return(World(c)))

Next ==
  \E c \in DOMAIN calls :
    \/ call_authenticate(c)
    \/ call_load_markets(c)
    \/ call_load_asset_mapping(c)
    \/ call_fetch_balance(c)
    \/ call_fetch_tickers(c)
    \/ call_create_order(c)
    \/ call_cancel_order(c)
    \/ call_fetch_order(c)
    \/ call_fetch_orders(c)
    \/ call_edit_order(c)
    \/ respond_error(c)
    \/ respond_fetch_markets_assets(c)
    \/ respond_fetch_markets_rates(c)
    \/ respond_load_asset_mapping(c)
    \/ respond_refresh(c)
    \/ respond_private(c)
    \/ respond_fetch_tickers(c)

Spec == Init /\ [][Next]_vars

(***************************************************************************)
(* Two calls on one adapter                                                *)
(***************************************************************************)

\* Two coroutines on the same adapter object, each entering one method; the
\* event loop runs one of them at a time, from one await to the next.
RaceCallers == {"a", "b"}

InitRace ==
  /\ access_token = None
  /\ markets = Nothing
  /\ options = [assetsByCode |-> Nothing, assetsById |-> Nothing]
  /\ calls = [c \in RaceCallers |-> IdleCall]
  /\ re_bound \in BOOLEAN
  /\ input = Nothing
  /\ output = Nothing

\* The coroutine has not entered its method yet.
NotEntered(c) == calls[c].pc = "idle"

call_market_buy(c) ==
  call_create_order_from(c, {"market"}, {"buy"}, {7}, {Nothing}, { << >> })

NextRace ==
  \E c \in DOMAIN calls :
    \/ NotEntered(c) /\ call_authenticate(c)
    \/ NotEntered(c) /\ call_load_asset_mapping(c)
    \/ NotEntered(c) /\ call_fetch_balance(c)
    \/ NotEntered(c) /\ call_fetch_order(c)
    \/ NotEntered(c) /\ call_cancel_order(c)
    \/ NotEntered(c) /\ call_market_buy(c)
    \/ respond_error(c)
    \/ respond_fetch_markets_assets(c)
    \/ respond_fetch_markets_rates(c)
    \/ respond_load_asset_mapping(c)
    \/ respond_refresh(c)
    \/ respond_private(c)

SpecRace == InitRace /\ [][NextRace]_vars

(***************************************************************************)
(* Properties of the adapter                                               *)
(***************************************************************************)

\* The call's private request is with the transport.
Transported(c) == Awaits(c, "private")

\* C1: a private request signed while the slot was empty reaches the
\* transport after exactly one authenticate() refresh exchange, and one
\* signed while the slot held a token after none.
C1_EnsureAuthenticated ==
  \A c \in Callers :
    Transported(c) =>
      IF calls[c].signed_empty THEN calls[c].auths = 1 ELSE calls[c].auths = 0

\* The order-type codes of the exchange.
OrderTypeCode(type, side) ==
  CASE type = "market" /\ side = "buy" -> "3"
    [] type = "market" /\ side = "sell" -> "4"
    [] type = "limit" /\ side = "buy" -> "1"
    [] type = "limit" /\ side = "sell" -> "2"

\* C4: the order type create_order selects depends on (type, side) only:
\* market buy '3', market sell '4', limit buy '1', limit sell '2', whatever
\* the amount, price, extra params and session or cache state; for any other
\* type the selection raises InvalidOrder and no order request is signed or
\* handed to the transport.
C4_OrderType ==
  \A c \in Callers :
    calls[c].op = "create_order" =>
      LET a == calls[c].args
      IN  /\ calls[c].signed =>
               /\ a.type \in {"market", "limit"}
               /\ calls[c].order_type = OrderTypeCode(a.type, a.side)
               /\ calls[c].request.orderType = OrderTypeCode(a.type, a.side)
          /\ a.type \notin {"market", "limit"} =>
               /\ ~calls[c].signed
               /\ ~Transported(c)
               /\ calls[c].selected => (calls[c].pc = "done" /\ calls[c].result = "InvalidOrder")

\* A create_order of an unsupported type was rejected with InvalidOrder.
C4_Witness ==
  \E c \in Callers :
    /\ calls[c].op = "create_order"
    /\ calls[c].args.type = "stop"
    /\ calls[c].selected
    /\ calls[c].result = "InvalidOrder"

\* The market a symbol names in the market cache.
MarketOf(symbol) ==
  markets[1][CHOOSE i \in 1..Len(markets[1]) : markets[1][i].symbol = symbol]

\* C5: the request create_order builds (before the caller's extra params are
\* merged over it) is quote-denominated for a limit buy with a price:
\* primary = quote, secondary = base, assetQuantity = quote, quantity =
\* amount x price at cost precision, trigger = price at price precision; and
\* base-denominated for market buy, market sell and limit sell: primary =
\* base, secondary = quote, assetQuantity = base, quantity = amount at amount
\* precision.  trigger is present only for limit orders.
C5_Denomination ==
  \A c \in Callers :
    (calls[c].op = "create_order" /\ calls[c].signed) =>
      LET a == calls[c].args
          r == calls[c].request
          m == MarketOf(a.symbol)
          base == a.symbol[1]
          quote == a.symbol[2]
      IN  /\ (a.type = "limit" /\ a.side = "buy" /\ a.price # Nothing) =>
               /\ r.primary = quote /\ r.secondary = base /\ r.assetQuantity = quote
               /\ r.quantity = cost_to_precision(m, times(a.amount[1], a.price[1]))
               /\ "trigger" \in DOMAIN r
               /\ r.trigger = Some(price_to_precision(m, a.price[1]))
          /\ (a.type = "market" \/ (a.type = "limit" /\ a.side = "sell")) =>
               /\ r.primary = base /\ r.secondary = quote /\ r.assetQuantity = base
               /\ r.quantity = amount_to_precision(m, a.amount[1])
          /\ "trigger" \in DOMAIN r => a.type = "limit"

\* A limit buy of 0.7 at 2.5 was signed with its quantity in quote terms.
C5_Witness ==
  \E c \in Callers :
    /\ calls[c].op = "create_order" /\ calls[c].signed
    /\ calls[c].args.type = "limit" /\ calls[c].args.side = "buy"
    /\ calls[c].args.amount = Some(7) /\ calls[c].args.price = Some(25)
    /\ calls[c].request.primary = "AUD"
    /\ calls[c].request.quantity = 10

\* C6: an edit_order with a type other than limit ends with NotSupported, one
\* with neither price nor amount ends with InvalidOrder, and in both cases the
\* call has handed no request to the transport (so the token slot and the
\* caches are as they were), whatever the market cache and the slot held.
C6_LocalPreconditions ==
  \A c \in Callers :
    (calls[c].op = "edit_order" /\ calls[c].pc = "done") =>
      LET a == calls[c].args
      IN  /\ a.type # "limit" => (calls[c].result = "NotSupported" /\ calls[c].sent = 0)
          /\ (a.type = "limit" /\ a.price = Nothing /\ a.amount = Nothing) =>
               (calls[c].result = "InvalidOrder" /\ calls[c].sent = 0)

C10_BearerToken ==
  \A c \in Callers :
    Transported(c) =>
      /\ calls[c].req.headers.Authorization \in Tokens
      /\ calls[c].req.headers.Authorization = access_token

\* C11: a create_order of type limit without a price, for either side, ends
\* with InvalidOrder once it reaches the translation, and no order request is
\* signed or handed to the transport.
C11_LimitNeedsPrice ==
  \A c \in Callers :
    ( /\ calls[c].op = "create_order"
      /\ calls[c].args.type = "limit"
      /\ calls[c].args.price = Nothing ) =>
        /\ ~calls[c].signed
        /\ ~Transported(c)
        /\ calls[c].selected => (calls[c].pc = "done" /\ calls[c].result = "InvalidOrder")

(***************************************************************************)
(* Properties of two calls on one adapter                                  *)
(***************************************************************************)

\* Methods whose request goes to the private API.
PrivateOps == {"fetch_balance", "fetch_order", "cancel_order", "create_order"}

\* The two calls were in flight together and each signed its private request
\* while the slot was empty.
RacedOnEmptySlot(c, d) ==
  /\ c # d
  /\ calls[c].peer \/ calls[d].peer
  /\ \A e \in {c, d} :
       calls[e].op \in PrivateOps /\ calls[e].signed /\ calls[e].signed_empty

\* C12: when two private calls that were in flight together on an empty slot
\* have both completed, the slot is not empty and holds the token that the
\* refresh exchange of one of the two calls returned.
C12_TokenRace ==
  \A c, d \in DOMAIN calls :
    ( /\ RacedOnEmptySlot(c, d)
      /\ \A e \in {c, d} : calls[e].pc = "done" /\ calls[e].result = "ok" ) =>
        /\ access_token # None
        /\ access_token \in {calls[c].got_token, calls[d].got_token}

\* C13: in every state between two steps of the event loop the by-code index
\* is set if and only if the by-id index is set: before any load, while one or
\* two first loads are suspended, after a load stored them, and after a load
\* whose fetch failed.
C13_CacheAtomicity ==
  (options.assetsByCode = Nothing) <=> (options.assetsById = Nothing)

\* One first load has stored both indexes while the other call's first load
\* is still suspended on its asset-list fetch.
C13_Witness ==
  \E c, d \in DOMAIN calls :
    /\ c # d
    /\ calls[c].lam_empty /\ calls[c].pc = "done" /\ calls[c].result = "ok"
    /\ calls[d].lam_empty /\ Awaits(d, "load_asset_mapping")
    /\ options.assetsByCode # Nothing
    /\ options.assetsById # Nothing

\* C14: a call of load_asset_mapping calls fetch() for the asset list exactly
\* when it finds the by-code index unset; a call that finds it set calls
\* fetch() zero times, is not suspended on an asset-list fetch, and leaves
\* both indexes as they were.
C14_PopulateOnce ==
  [][ \A c \in DOMAIN calls :
        /\ calls'[c].lam_fetches =
             (IF calls'[c].lam_called /\ calls'[c].lam_empty THEN 1 ELSE 0)
        /\ (~calls[c].lam_called /\ calls'[c].lam_called /\ ~calls'[c].lam_empty) =>
             /\ options' = options
             /\ ~(calls'[c].pc = "await" /\ calls'[c].at = "load_asset_mapping") ]_vars

\* With the indexes populated by the other call, a fetch_balance or
\* fetch_order call went through load_asset_mapping without a fetch.
C14_Witness ==
  \E c, d \in DOMAIN calls :
    /\ c # d
    /\ calls[d].lam_empty /\ calls[d].pc = "done" /\ calls[d].result = "ok"
    /\ calls[c].op \in {"fetch_balance", "fetch_order"}
    /\ calls[c].lam_called /\ ~calls[c].lam_empty /\ calls[c].lam_fetches = 0
    /\ options.assetsByCode # Nothing

====
